---- MODULE Spec2Model ----
(***************************************************************************)
(* State machine of the DOM-based ToDo application src/src/app.ts.         *)
(*                                                                         *)
(* Text is a sequence of characters (one-character strings), and so is the *)
(* JSON text kept under STORAGE_KEY.  A handler is one action: it maps the *)
(* record of the program's state through the functions the handler calls,  *)
(* in the order the code calls them.                                       *)
(***************************************************************************)
EXTENDS Integers, Sequences, FiniteSets, TLC

VARIABLES
    todos,             \* let todos: Todo[]                       (line 20)
    storage,           \* localStorage entry under STORAGE_KEY    (lines 9, 24, 29)
    currentFilter,     \* let currentFilter                       (line 21)
    selectedFilter,    \* the .filters anchor carrying class "selected" (line 77)
    rows,              \* children of #todo-list, one per rendered todo (lines 94-127)
    focusedRow,        \* index of the row whose edit input has focus, 0 if none
    todoCountText,     \* #todo-count textContent                 (line 130)
    mainDisplay,       \* .main style.display                     (line 84)
    footerDisplay,     \* .footer style.display                   (line 134)
    toggleAllChecked,  \* #toggle-all checked                     (line 137)
    blurOnRemoval,     \* whether the browser dispatches blur on a focused element
                       \* that is removed from the document (browser dependent)
    last               \* the handler that ran last: its name, arguments, how
                       \* often it called saveTodos and render, the error it
                       \* threw, if any, and the length of the collection when
                       \* it started

vars == <<todos, storage, currentFilter, selectedFilter, rows, focusedRow,
          todoCountText, mainDisplay, footerDisplay, toggleAllChecked,
          blurOnRemoval, last>>

----------------------------------------------------------------------------
(* Bounds and input sets *)

\* Largest collection the model builds (addTodo is not offered beyond it).
MaxTodos == 2

\* Texts the user can have typed into #new-todo or into an edit field.
RawTitles ==
    { <<>>, <<"\t", " ">>, <<"a">>, <<" ", "a", "\t">>, <<"\"", "\t", "\\">>,
      <<"\\u3000", " ", "\"", "\t", "\\", "\\u2028">> }

\* Math.random().toString(36) for the outcomes of Math.random() the model draws.
RandomStrings ==
    { <<"0", ".", "i">>, <<"0", ".", "9", "z">> }

Filters == {"all", "active", "completed"}

----------------------------------------------------------------------------
(* Characters and strings.  A string is the sequence of its characters, each *)
(* a one-character string.                                                   *)

Min(S) == CHOOSE x \in S : \A y \in S : x <= y

Max(S) == CHOOSE x \in S : \A y \in S : x >= y

\* The control characters U+0001 .. U+001F, each at the index of its code point.
ControlChars ==
    << "", "", "", "", "", "", "", "",
       "\t", "\n", "", "\f", "\r", "", "", "",
       "", "", "", "", "", "", "", "",
       "", "", "", "", "", "", "" >>

\* The characters U+0020 .. U+007E, the first at index 1 (U+0060 by name).
PrintableChars ==
    << " ", "!", "\"", "#", "$", "%", "&", "'", "(", ")", "*", "+",
       ",", "-", ".", "/", "0", "1", "2", "3", "4", "5", "6", "7",
       "8", "9", ":", ";", "<", "=", ">", "?", "@", "A", "B", "C",
       "D", "E", "F", "G", "H", "I", "J", "K", "L", "M", "N", "O",
       "P", "Q", "R", "S", "T", "U", "V", "W", "X", "Y", "Z", "[",
       "\\", "]", "^", "_", "\\u0060", "a", "b", "c", "d", "e", "f", "g",
       "h", "i", "j", "k", "l", "m", "n", "o", "p", "q", "r", "s",
       "t", "u", "v", "w", "x", "y", "z", "{", "|", "}", "~" >>

\* U+0000, U+007F, U+00A0, U+1680 and U+FEFF.
NUL == "\\u0000"

DEL == ""

NBSP == " "

OghamSpace == " "

BOM == "﻿"

HexDigits == <<"0", "1", "2", "3", "4", "5", "6", "7", "8", "9", "a", "b", "c", "d", "e", "f">>

UpperHexDigits == <<"0", "1", "2", "3", "4", "5", "6", "7", "8", "9", "A", "B", "C", "D", "E", "F">>

Digits == {HexDigits[n] : n \in 1..10}

IsHex(c) == \E n \in 1..16 : HexDigits[n] = c \/ UpperHexDigits[n] = c

HexValue(c) == (CHOOSE n \in 1..16 : HexDigits[n] = c \/ UpperHexDigits[n] = c) - 1

\* The C0 control characters, U+0000 - U+001F.
ControlSet == {NUL} \cup {ControlChars[n] : n \in 1..31}

IsControl(c) == c \in ControlSet

\* The code point of a control character.
ControlCode(c) == IF c = NUL THEN 0 ELSE CHOOSE n \in 1..31 : ControlChars[n] = c

\* The character with code point n.  A character the module has no literal
\* for is named by its \u escape.
CharOfCode(n) ==
    IF n \in 1..31 THEN ControlChars[n]
    ELSE IF n \in 32..126 THEN PrintableChars[n - 31]
    ELSE IF n = 127 THEN DEL
    ELSE IF n = 160 THEN NBSP
    ELSE IF n = 5760 THEN OghamSpace
    ELSE IF n = 65279 THEN BOM
    ELSE "\\u" \o HexDigits[((n \div 4096) % 16) + 1] \o HexDigits[((n \div 256) % 16) + 1]
               \o HexDigits[((n \div 16) % 16) + 1] \o HexDigits[(n % 16) + 1]

\* The code units of a surrogate pair: U+D800 - U+DBFF, then U+DC00 - U+DFFF.
\* The module has no literal for either, so that each is named by its escape,
\* \ud800 to \udfff.
IsHighSurrogate(c) ==
    Len(c) = 6 /\ SubSeq(c, 1, 3) = "\\ud" /\ SubSeq(c, 4, 4) \in {"8", "9", "a", "b"}

IsLowSurrogate(c) ==
    Len(c) = 6 /\ SubSeq(c, 1, 3) = "\\ud" /\ SubSeq(c, 4, 4) \in {"c", "d", "e", "f"}

IsSurrogate(c) == IsHighSurrogate(c) \/ IsLowSurrogate(c)

\* The code points of WhiteSpace and LineTerminator: TAB, LF, VT, FF, CR, SP,
\* U+00A0, U+1680, U+2000 - U+200A, U+2028, U+2029, U+202F, U+205F, U+3000
\* and U+FEFF.
WhiteSpaceCodes ==
    {9, 10, 11, 12, 13, 32, 160, 5760, 8232, 8233, 8239, 8287, 12288, 65279}
        \cup 8192..8202

WhiteSpace == {CharOfCode(n) : n \in WhiteSpaceCodes}

\* White space and line terminators, which String.prototype.trim removes.
IsSpace(c) == c \in WhiteSpace

\* String.prototype.trim: drop leading and trailing white space, keep the rest.
trim(str) ==
    LET keep == {i \in 1..Len(str) : ~IsSpace(str[i])}
    IN  IF keep = {} THEN <<>> ELSE SubSeq(str, Min(keep), Max(keep))

\* String.prototype.slice(from, to) for 0 <= from <= to (0-based, end exclusive).
slice(str, from, to) == SubSeq(str, from + 1, IF to < Len(str) THEN to ELSE Len(str))

\* uid(): Math.random().toString(36).slice(2, 9); rnd is the base-36 text.
uid(rnd) == slice(rnd, 2, 9)

Ids == {uid(rnd) : rnd \in RandomStrings}

IsBlank(str) == trim(str) = <<>>

HasId(ts, id) == \E k \in 1..Len(ts) : ts[k].id = id

\* The value sanitization of a text input: line feeds and carriage returns
\* are stripped from a value that is set (editInput.value = todo.title).
stripNewlines(str) == SelectSeq(str, LAMBDA c : c \notin {"\n", "\r"})

----------------------------------------------------------------------------
(* Numbers.  JSON.parse turns a number literal into the IEEE 754 double      *)
(* nearest to it (ties to even), and Number::toString writes a double with   *)
(* the fewest digits that read back as the same double.  Both are computed   *)
(* here on decimals: a decimal is the digits of a natural number (most       *)
(* significant first, no leading zero, <<>> for 0) and a power of ten,       *)
(* value = digits * 10^exp.                                                  *)

DigitValue(c) == HexValue(c)

DigitChar(n) == HexDigits[n + 1]

\* The digits without leading zeros.
StripLeadingZeros(digits) ==
    LET nonzero == {i \in 1..Len(digits) : digits[i] # 0}
    IN  IF nonzero = {} THEN <<>> ELSE SubSeq(digits, Min(nonzero), Len(digits))

\* The digits without trailing zeros.
StripTrailingZeros(digits) ==
    LET nonzero == {i \in 1..Len(digits) : digits[i] # 0}
    IN  IF nonzero = {} THEN <<>> ELSE SubSeq(digits, 1, Max(nonzero))

Decimal(digits, exp) == [digits |-> StripLeadingZeros(digits), exp |-> exp]

\* The power of ten above the leading digit: 10^(Top - 1) <= value < 10^Top.
Top(x) == Len(x.digits) + x.exp

\* The value of an expression, computed once.
Only(values) == CHOOSE value \in values : TRUE

\* The natural number n in decimal notation.
RECURSIVE NatChars(_)
NatChars(n) ==
    IF n < 10 THEN <<DigitChar(n)>> ELSE Append(NatChars(n \div 10), DigitChar(n % 10))

\* The lesser of limit and the natural number written with the given digits
\* (no leading zero): a number of more digits than limit is above it.
RECURSIVE NatOf(_, _)
NatOf(digits, limit) ==
    IF digits = <<>> THEN 0
    ELSE IF Len(digits) > Len(NatChars(limit)) THEN limit
    ELSE Only({IF high > (limit - digits[Len(digits)]) \div 10 THEN limit
               ELSE 10 * high + digits[Len(digits)] :
                    high \in {NatOf(SubSeq(digits, 1, Len(digits) - 1), limit)}})

\* The parts of a number literal: -? int (. frac)? ([eE] [+-]? digits)?
\* The exponent is read up to n + 326, n the length of the literal: the digits
\* of the literal move its power of ten by less than n, every number from
\* 10^310 on is infinite and every number below 10^-325 is 0, so a greater
\* exponent stands for the same number as n + 326.
LiteralParts(literal) ==
    LET n == Len(literal)
        negative == n > 0 /\ literal[1] = "-"
        first == IF negative THEN 2 ELSE 1
        exps == {i \in 1..n : literal[i] \in {"e", "E"}}
        mantissaEnd == IF exps = {} THEN n ELSE Min(exps) - 1
        points == {i \in first..mantissaEnd : literal[i] = "."}
        intEnd == IF points = {} THEN mantissaEnd ELSE Min(points) - 1
        expSigned == exps # {} /\ literal[Min(exps) + 1] \in {"+", "-"}
        expFirst == IF exps = {} THEN n + 1
                    ELSE IF expSigned THEN Min(exps) + 2 ELSE Min(exps) + 1
        digits(chars) == <<>> \o [i \in 1..Len(chars) |-> DigitValue(chars[i])]
    IN  [negative |-> negative,
         int |-> digits(SubSeq(literal, first, intEnd)),
         frac |-> digits(SubSeq(literal, intEnd + 2, mantissaEnd)),
         expNegative |-> expSigned /\ literal[Min(exps) + 1] = "-",
         exp |-> NatOf(StripLeadingZeros(digits(SubSeq(literal, expFirst, n))), n + 326)]

\* The absolute value of a number literal, as a decimal.
DecimalOf(literal) ==
    LET p == LiteralParts(literal)
    IN  Decimal(p.int \o p.frac, (IF p.expNegative THEN 0 - p.exp ELSE p.exp) - Len(p.frac))

\* 2 * x: the carry into a digit depends on the next digit only.
Double(x) ==
    LET d == x.digits
        n == Len(d)
        doubled == <<>> \o [i \in 1..n |->
                    (2 * d[i] + (IF i < n /\ d[i + 1] >= 5 THEN 1 ELSE 0)) % 10]
    IN  [digits |-> IF n > 0 /\ d[1] >= 5 THEN <<1>> \o doubled ELSE doubled, exp |-> x.exp]

\* x / 2: the remainder of a digit moves into the next digit only.
Halve(x) ==
    LET odd == x.digits # <<>> /\ x.digits[Len(x.digits)] % 2 = 1
        d == IF odd THEN Append(x.digits, 0) ELSE x.digits
        n == Len(d)
        halved == <<>> \o [i \in 1..n |->
                    (d[i] + (IF i > 1 /\ d[i - 1] % 2 = 1 THEN 10 ELSE 0)) \div 2]
    IN  [digits |-> IF n > 0 /\ halved[1] = 0 THEN Tail(halved) ELSE halved,
         exp |-> IF odd THEN x.exp - 1 ELSE x.exp]

\* x * 2^q, built from computed halves, so that no step waits on the steps
\* before it.
RECURSIVE Scale(_, _)
Scale(x, q) ==
    IF q = 0 THEN x
    ELSE IF q = 1 THEN Double(x)
    ELSE IF q = -1 THEN Halve(x)
    ELSE Only({Scale(y, q - (q \div 2)) : y \in {Scale(x, q \div 2)}})

\* The sign of s - x: -1, 0 or 1.
Compare(s, x) ==
    LET a == s.digits
        b == x.digits
        n == Len(a)
        B(i) == IF i <= Len(b) THEN b[i] ELSE 0
        diff == {i \in 1..n : a[i] # B(i)}
    IN  IF a = <<>> THEN (IF b = <<>> THEN 0 ELSE -1)
        ELSE IF b = <<>> THEN 1
        ELSE IF Top(s) # Top(x) THEN (IF Top(s) < Top(x) THEN -1 ELSE 1)
        ELSE IF diff # {} THEN (IF a[Min(diff)] < B(Min(diff)) THEN -1 ELSE 1)
        ELSE IF \E i \in (n + 1)..Len(b) : b[i] # 0 THEN -1
        ELSE 0

\* 2^52 and 2^53: the significand m of a normal double is 2^52 <= m < 2^53.
Pow52 == Decimal(<<4, 5, 0, 3, 5, 9, 9, 6, 2, 7, 3, 7, 0, 4, 9, 6>>, 0)

Pow53 == Decimal(<<9, 0, 0, 7, 1, 9, 9, 2, 5, 4, 7, 4, 0, 9, 9, 2>>, 0)

\* The least and the largest exponent q of a double m * 2^q.
MinBinaryExponent == -1074

MaxBinaryExponent == 971

\* x scaled into 2^52 <= x < 2^53, or down to the least exponent:
\* [x, q] with the value x * 2^q unchanged.
RECURSIVE Normalize(_, _)
Normalize(x, q) ==
    IF Compare(Pow53, x) <= 0
        THEN Only({Normalize(y, q + 1) : y \in {Halve(x)}})
    ELSE IF Compare(Pow52, x) > 0 /\ q > MinBinaryExponent
        THEN Only({Normalize(y, q - 1) : y \in {Double(x)}})
    ELSE [x |-> x, q |-> q]

\* An exponent q near the one that brings x * 2^-q into 2^52 .. 2^53
\* (10^(Top - 1) <= x, and log2(10) is 3.3219...).
BinaryEstimate(x) ==
    LET q == ((Top(x) - 1) * 33219) \div 10000 - 52
    IN  IF q < MinBinaryExponent THEN MinBinaryExponent ELSE q

\* digits + 1
Increment(digits) ==
    LET n == Len(digits)
        below9 == {i \in 1..n : digits[i] # 9}
        k == IF below9 = {} THEN 0 ELSE Max(below9)
    IN  IF k = 0 THEN <<1>> \o [i \in 1..n |-> 0]
        ELSE <<>> \o [i \in 1..n |-> IF i < k THEN digits[i]
                                    ELSE IF i = k THEN digits[i] + 1 ELSE 0]

\* digits - 1, for digits above 0
Decrement(digits) ==
    LET n == Len(digits)
        k == Max({i \in 1..n : digits[i] # 0})
    IN  StripLeadingZeros(<<>> \o [i \in 1..n |-> IF i < k THEN digits[i]
                                                 ELSE IF i = k THEN digits[i] - 1 ELSE 9])

\* The integer nearest to x < 2^53, ties to even, as digits.
RoundHalfEven(x) ==
    LET d == x.digits
        top == Top(x)
        whole == IF top <= 0 THEN <<>>
                 ELSE <<>> \o [i \in 1..top |-> IF i <= Len(d) THEN d[i] ELSE 0]
        D(i) == IF i >= 1 /\ i <= Len(d) THEN d[i] ELSE 0
        odd == whole # <<>> /\ whole[Len(whole)] % 2 = 1
        up == IF top < 0 THEN FALSE
              ELSE \/ D(top + 1) > 5
                   \/ /\ D(top + 1) = 5
                      /\ odd \/ \E i \in (top + 2)..Len(d) : d[i] # 0
    IN  IF up THEN Increment(whole) ELSE whole

\* The double nearest to a decimal above 0: m * 2^q with m < 2^53 (m = <<>>
\* for the double 0), or infinite.
ToDouble(x) ==
    LET round(n) ==
            LET m == RoundHalfEven(n.x)
                carried == m = Pow53.digits
            IN  [m |-> IF carried THEN Pow52.digits ELSE m,
                 q |-> IF carried THEN n.q + 1 ELSE n.q,
                 infinite |-> (IF carried THEN n.q + 1 ELSE n.q) > MaxBinaryExponent]
    IN  IF Top(x) > 310 THEN [m |-> Pow52.digits, q |-> MaxBinaryExponent + 1, infinite |-> TRUE]
        ELSE IF Top(x) < -325 THEN [m |-> <<>>, q |-> MinBinaryExponent, infinite |-> FALSE]
        ELSE Only({round(Normalize(y, BinaryEstimate(x))) :
                      y \in {Scale(x, 0 - BinaryEstimate(x))}})

\* The decimal of the fewest digits that reads back as the double m * 2^q
\* (m above 0), the nearest to it if there are two: a decimal reads back as
\* the double when it lies between the midpoints to the doubles next to it,
\* the midpoints themselves included when m is even.
Shortest(m, q) ==
    LET search(exact, low, high) ==
            LET strict == IF m[Len(m)] % 2 = 0 THEN 0 ELSE 1
                inside(c) == Compare(c, low) >= strict /\ Compare(c, high) <= 0 - strict
                d == exact.digits
                D(i) == IF i <= Len(d) THEN d[i] ELSE 0
                floor(n) == Decimal(<<>> \o [i \in 1..n |-> D(i)], Top(exact) - n)
                ceiling(n) == [digits |-> Increment(<<>> \o [i \in 1..n |-> D(i)]),
                               exp |-> Top(exact) - n]
                \* the digits of exact after the n-th are above one half, or
                \* are one half and the n-th is odd
                nearerCeiling(n) ==
                    \/ D(n + 1) > 5
                    \/ D(n + 1) = 5 /\ \E i \in (n + 2)..Len(d) : d[i] # 0
                    \/ D(n + 1) = 5 /\ D(n) % 2 = 1
                pick(found) ==
                    LET n == Min({k \in 1..17 : found[k] # {}})
                    IN  IF Cardinality(found[n]) = 1 THEN Only(found[n])
                        ELSE IF nearerCeiling(n) THEN ceiling(n)
                        ELSE floor(n)
            IN  Only({pick(found) :
                        found \in {[n \in 1..17 |->
                                      {c \in {floor(n), ceiling(n)} : inside(c)}]}})
        boundary == m = Pow52.digits /\ q > MinBinaryExponent
        value == [digits |-> m, exp |-> 0]
    IN  Only({search(exact, low, high) :
                exact \in {Scale(value, q)},
                low \in {IF boundary
                         THEN Scale([digits |-> Decrement(Double(Double(value)).digits),
                                     exp |-> 0], q - 2)
                         ELSE Scale([digits |-> Decrement(Double(value).digits),
                                     exp |-> 0], q - 1)},
                high \in {Scale([digits |-> Increment(Double(value).digits), exp |-> 0],
                                q - 1)}})

\* Number::toString of a number above 0 that is s * 10^e, s without trailing
\* zeros: decimal notation from 10^-7 up to 10^21, exponential otherwise.
FormatNumber(x) ==
    LET s == <<>> \o [i \in 1..Len(StripTrailingZeros(x.digits)) |-> DigitChar(x.digits[i])]
        k == Len(s)
        n == Top(x)
        zeros(count) == <<>> \o [i \in 1..count |-> "0"]
    IN  IF k <= n /\ n <= 21 THEN s \o zeros(n - k)
        ELSE IF 0 < n /\ n <= 21 THEN SubSeq(s, 1, n) \o <<".">> \o SubSeq(s, n + 1, k)
        ELSE IF -6 < n /\ n <= 0 THEN <<"0", ".">> \o zeros(0 - n) \o s
        ELSE (IF k = 1 THEN s ELSE <<s[1], ".">> \o SubSeq(s, 2, k))
             \o <<"e", IF n - 1 < 0 THEN "-" ELSE "+">>
             \o NatChars(IF n - 1 < 0 THEN 1 - n ELSE n - 1)

\* The number a JSON number literal stands for, as Number::toString writes
\* it: the double nearest to the literal, 0 for 0 and -0.
NumberOf(literal) ==
    LET sign == IF literal[1] = "-" THEN <<"-">> ELSE <<>>
        write(r) ==
            IF r.infinite THEN sign \o <<"I", "n", "f", "i", "n", "i", "t", "y">>
            ELSE IF r.m = <<>> THEN <<"0">>
            ELSE sign \o FormatNumber(Shortest(r.m, r.q))
        text(x) == IF x.digits = <<>> THEN <<"0">> ELSE Only({write(r) : r \in {ToDouble(x)}})
    IN  Only({text(x) : x \in {DecimalOf(literal)}})


----------------------------------------------------------------------------
(* JavaScript values: each carries its type.  A string holds its characters, *)
(* a number the text Number::toString writes for it, an array its elements, *)
(* an object its members <<key, value>> in the order of its own property    *)
(* keys.  An array or an object is a reference: ref is the index in the     *)
(* text at which JSON.parse read it, and 0 for one the program created.     *)

Undefined == [type |-> "undefined", val |-> <<>>]

Null == [type |-> "null", val |-> <<>>]

Boolean(b) == [type |-> "boolean", val |-> b]

\* Number::toString of an infinite number above 0
Infinity == <<"I", "n", "f", "i", "n", "i", "t", "y">>

Number(text) == [type |-> "number", val |-> text]

String(chars) == [type |-> "string", val |-> chars]

Array(items) == [type |-> "array", val |-> items, ref |-> 0]

Object(members) == [type |-> "object", val |-> members, ref |-> 0]

\* a === b: two arrays or objects are equal when they are the same one; the
\* program compares only values that JSON.parse or uid() returned.
StrictEquals(a, b) ==
    /\ a.type = b.type
    /\ IF a.type \in {"array", "object"} THEN a.ref = b.ref ELSE a.val = b.val

\* ToBoolean
Truthy(v) ==
    IF v.type = "boolean" THEN v.val
    ELSE IF v.type = "string" THEN v.val # <<>>
    ELSE IF v.type = "number" THEN v.val # <<"0">>
    ELSE v.type \in {"array", "object"}

\* v[key] for a key that no prototype defines (id, title, completed): the own
\* property of an object, undefined for every other value.
Prop(v, key) ==
    IF v.type = "object" /\ \E i \in 1..Len(v.val) : v.val[i][1] = key
    THEN v.val[CHOOSE i \in 1..Len(v.val) : v.val[i][1] = key][2]
    ELSE Undefined

K_id == <<"i", "d">>

K_title == <<"t", "i", "t", "l", "e">>

K_completed == <<"c", "o", "m", "p", "l", "e", "t", "e", "d">>

K_length == <<"l", "e", "n", "g", "t", "h">>

K_toString == <<"t", "o", "S", "t", "r", "i", "n", "g">>

\* ToString(v) throws a TypeError: v is an object with an own property
\* toString, which no JSON value can call and which hides
\* Object.prototype.toString, or an array that holds such an object
\* (Array.prototype.join skips null and undefined).
RECURSIVE ToStringThrows(_)
ToStringThrows(v) ==
    IF v.type = "object" THEN \E i \in 1..Len(v.val) : v.val[i][1] = K_toString
    ELSE IF v.type = "array" THEN \E i \in 1..Len(v.val) : ToStringThrows(v.val[i])
    ELSE FALSE

\* ToString(v) for a value on which it does not throw
RECURSIVE ToStringOf(_)
ToStringOf(v) ==
    LET RECURSIVE join(_)
        join(items) ==
            IF items = <<>> THEN <<>>
            ELSE (IF items[1].type \in {"null", "undefined"} THEN <<>>
                  ELSE ToStringOf(items[1]))
                 \o (IF Len(items) = 1 THEN <<>> ELSE <<",">> \o join(Tail(items)))
    IN  IF v.type = "undefined" THEN <<"u", "n", "d", "e", "f", "i", "n", "e", "d">>
        ELSE IF v.type = "null" THEN <<"n", "u", "l", "l">>
        ELSE IF v.type = "boolean"
            THEN (IF v.val THEN <<"t", "r", "u", "e">> ELSE <<"f", "a", "l", "s", "e">>)
        ELSE IF v.type \in {"number", "string"} THEN v.val
        ELSE IF v.type = "array" THEN join(v.val)
        ELSE <<"[", "o", "b", "j", "e", "c", "t", " ", "O", "b", "j", "e", "c", "t", "]">>

\* The own enumerable properties of v, as { ...v } copies them: the members
\* of an object, the elements of an array and the characters of a string
\* under their indices, none for any other value.
Spread(v) ==
    IF v.type = "object" THEN v.val
    ELSE IF v.type = "array"
        THEN <<>> \o [k \in 1..Len(v.val) |-> <<NatChars(k - 1), v.val[k]>>]
    ELSE IF v.type = "string"
        THEN <<>> \o [k \in 1..Len(v.val) |-> <<NatChars(k - 1), String(<<v.val[k]>>)>>]
    ELSE <<>>

\* The members with the property key: value defined after them, key being no
\* array index: the property keeps its place if there is one, and is the last
\* one otherwise.
Put(members, key, value) ==
    IF \E i \in 1..Len(members) : members[i][1] = key
    THEN [i \in 1..Len(members) |->
            IF members[i][1] = key THEN <<key, value>> ELSE members[i]]
    ELSE Append(members, <<key, value>>)

\* interface Todo (lines 3-7): an object that has the properties id and
\* title, which are strings, and completed, which is a boolean, in any order
\* and with or without other properties.
IsTodoObject(v) ==
    /\ v.type = "object"
    /\ Prop(v, K_id).type = "string"
    /\ Prop(v, K_title).type = "string"
    /\ Prop(v, K_completed).type = "boolean"

\* The keys of the object addTodo builds (line 44), in their order.
TodoKeys == <<K_id, K_title, K_completed>>

\* A Todo object is the record of its three properties.  An object that has
\* them in another order, or has other properties as well, also keeps its
\* members in the field own, in their order, those of the three properties
\* without a value.
Element(v) ==
    IF ~IsTodoObject(v) THEN v
    ELSE IF [k \in 1..Len(v.val) |-> v.val[k][1]] = TodoKeys
        THEN [id |-> Prop(v, K_id).val, title |-> Prop(v, K_title).val,
              completed |-> Prop(v, K_completed).val]
    ELSE [id |-> Prop(v, K_id).val, title |-> Prop(v, K_title).val,
          completed |-> Prop(v, K_completed).val,
          own |-> [k \in 1..Len(v.val) |->
                    IF v.val[k][1] \in {K_id, K_title, K_completed}
                    THEN <<v.val[k][1], Undefined>>
                    ELSE v.val[k]]]

\* What todos holds when it is no array: the value, under the index 0.
NoArray(v) == [k \in {0} |-> v]

\* todos holds an array.
IsArray(ts) == 0 \notin DOMAIN ts

\* parsed as Todo[] (line 31): an array is the sequence of its elements, any
\* other value stays the value it is.
AsTodos(v) ==
    IF v.type = "array" THEN [k \in 1..Len(v.val) |-> Element(v.val[k])] ELSE NoArray(v)

\* The element of a collection is a Todo record.
IsTodo(t) == {"id", "title", "completed"} \subseteq DOMAIN t

\* The element of a collection is null.
IsNull(t) == ~IsTodo(t) /\ t.type = "null"

\* t.completed as a condition
Completed(t) == IF IsTodo(t) THEN t.completed ELSE Truthy(Prop(t, K_completed))

\* The callback of todos.filter or todos.map reads a property of each
\* element (lines 52, 58, 64, 70, 87, 88, 129, 137): calling the method
\* throws a TypeError when todos is no array, since no JSON value has a
\* method, and the callback throws one on an element that is null.
ReadThrows(ts) == ~IsArray(ts) \/ \E k \in 1..Len(ts) : IsNull(ts[k])

----------------------------------------------------------------------------
(* JSON.stringify / JSON.parse *)

\* QuoteJSONString escapes the quote, the backslash, the control characters,
\* and a surrogate that is not one of a pair.
IsEscaped(c) == c \in ControlSet \cup {"\"", "\\"} \/ IsSurrogate(c)

\* QuoteJSONString for one character that is not one of a surrogate pair
Escape(c) ==
    IF ~IsEscaped(c) THEN <<c>>
    ELSE IF c = "\"" THEN <<"\\", "\"">>
    ELSE IF c = "\\" THEN <<"\\", "\\">>
    ELSE IF IsControl(c) THEN
        LET control(n) ==
                IF n = 8 THEN <<"\\", "b">>
                ELSE IF n = 9 THEN <<"\\", "t">>
                ELSE IF n = 10 THEN <<"\\", "n">>
                ELSE IF n = 12 THEN <<"\\", "f">>
                ELSE IF n = 13 THEN <<"\\", "r">>
                ELSE <<"\\", "u", "0", "0",
                       HexDigits[(n \div 16) + 1], HexDigits[(n % 16) + 1]>>
        IN  control(ControlCode(c))
    ELSE <<"\\", "u", "d", SubSeq(c, 4, 4), SubSeq(c, 5, 5), SubSeq(c, 6, 6)>>

\* The characters of a string with each one escaped; a string that holds no
\* character to escape is its own escaped form, and a high surrogate followed
\* by a low one is a pair, which is kept.
RECURSIVE EscapeAll(_)
EscapeAll(str) ==
    IF \A k \in 1..Len(str) : ~IsEscaped(str[k]) THEN str
    ELSE IF Len(str) >= 2 /\ IsHighSurrogate(str[1]) /\ IsLowSurrogate(str[2])
        THEN <<str[1], str[2]>> \o EscapeAll(SubSeq(str, 3, Len(str)))
    ELSE Escape(Head(str)) \o EscapeAll(Tail(str))

\* JSON.stringify of a string
Quote(str) == <<"\"">> \o EscapeAll(str) \o <<"\"">>

RECURSIVE stringifyValue(_), stringifyItems(_), stringifyMembers(_)

\* JSON.stringify of a value JSON.parse returned
stringifyValue(v) ==
    IF v.type = "null" THEN <<"n", "u", "l", "l">>
    ELSE IF v.type = "boolean"
        THEN (IF v.val THEN <<"t", "r", "u", "e">> ELSE <<"f", "a", "l", "s", "e">>)
    ELSE IF v.type = "number"
        THEN (IF v.val \in {Infinity, <<"-">> \o Infinity} THEN <<"n", "u", "l", "l">>
              ELSE v.val)
    ELSE IF v.type = "string" THEN Quote(v.val)
    ELSE IF v.type = "array" THEN <<"[">> \o stringifyItems(v.val) \o <<"]">>
    ELSE <<"{">> \o stringifyMembers(v.val) \o <<"}">>

stringifyItems(items) ==
    IF items = <<>> THEN <<>>
    ELSE stringifyValue(items[1])
         \o (IF Len(items) = 1 THEN <<>> ELSE <<",">> \o stringifyItems(Tail(items)))

stringifyMembers(members) ==
    IF members = <<>> THEN <<>>
    ELSE Quote(members[1][1]) \o <<":">> \o stringifyValue(members[1][2])
         \o (IF Len(members) = 1 THEN <<>> ELSE <<",">> \o stringifyMembers(Tail(members)))

\* The own properties of a Todo with their values, in their order.
Members(t) ==
    LET value(member) ==
            IF member[1] = K_id THEN String(t.id)
            ELSE IF member[1] = K_title THEN String(t.title)
            ELSE IF member[1] = K_completed THEN Boolean(t.completed)
            ELSE member[2]
        members(own) == <<>> \o [k \in 1..Len(own) |-> <<own[k][1], value(own[k])>>]
    IN  members(IF "own" \in DOMAIN t THEN t.own
                ELSE [k \in 1..Len(TodoKeys) |-> <<TodoKeys[k], Undefined>>])

\* The element of a collection as a value
ValueOf(t) == IF IsTodo(t) THEN Object(Members(t)) ELSE t

\* t[key], key one of id, title, completed, for an element that is not null
Get(t, key) ==
    IF ~IsTodo(t) THEN Prop(t, key)
    ELSE IF key = K_id THEN String(t.id)
    ELSE IF key = K_title THEN String(t.title)
    ELSE Boolean(t.completed)

\* { ...t, key: value } (lines 58, 64, 181), key one of title, completed.  A
\* Todo has the property: it keeps its place among the own properties and
\* takes the value.
With(t, key, value) ==
    IF IsTodo(t) /\ key = K_title /\ value.type = "string"
        THEN [t EXCEPT !.title = value.val]
    ELSE IF IsTodo(t) /\ key = K_completed /\ value.type = "boolean"
        THEN [t EXCEPT !.completed = value.val]
    ELSE Element(Object(Put(Spread(ValueOf(t)), key, value)))

\* A value as the model records it in last: a string is its characters.
Plain(v) == IF v.type = "string" THEN v.val ELSE v

\* JSON.stringify of one Todo: its own properties in their order.
stringifyTodo(t) == stringifyValue(ValueOf(t))

\* JSON.stringify(todos): the array of the elements
JSONstringify(ts) == stringifyValue(Array(<<>> \o [k \in 1..Len(ts) |-> ValueOf(ts[k])]))

ParseFail == [ok |-> FALSE, val |-> Undefined, next |-> 0]

\* The first index from i on that holds none of the given characters.
skip(text, i, chars) ==
    LET others == {k \in i..Len(text) : text[k] \notin chars}
    IN  IF i > Len(text) \/ text[i] \notin chars THEN i
        ELSE IF others = {} THEN Len(text) + 1
        ELSE Min(others)

\* JSON white space between tokens: space, tab, line feed, carriage return.
skipWs(text, i) == skip(text, i, {" ", "\t", "\n", "\r"})

skipDigits(text, i) == skip(text, i, Digits)

StartsWith(text, i, word) ==
    i + Len(word) - 1 <= Len(text) /\ SubSeq(text, i, i + Len(word) - 1) = word

\* The index after the number literal that starts at i, 0 if there is none:
\* -? (0 | [1-9][0-9]*) (. [0-9]+)? ([eE] [+-]? [0-9]+)?
scanNumber(text, i) ==
    LET a == IF text[i] = "-" THEN i + 1 ELSE i
        b == IF a > Len(text) \/ text[a] \notin Digits THEN 0
             ELSE IF text[a] = "0" THEN a + 1
             ELSE skipDigits(text, a)
        c == IF b = 0 THEN 0
             ELSE IF b <= Len(text) /\ text[b] = "."
                 THEN IF b + 1 <= Len(text) /\ text[b + 1] \in Digits
                      THEN skipDigits(text, b + 1) ELSE 0
             ELSE b
        e == IF c # 0 /\ c + 1 <= Len(text) /\ text[c + 1] \in {"+", "-"} THEN c + 2 ELSE c + 1
    IN  IF c = 0 THEN 0
        ELSE IF c <= Len(text) /\ text[c] \in {"e", "E"}
            THEN IF e <= Len(text) /\ text[e] \in Digits THEN skipDigits(text, e) ELSE 0
        ELSE c

\* The character an escape \c stands for, c one of " \ / b f n r t.
Unescape(c) ==
    IF c = "b" THEN ControlChars[8]
    ELSE IF c = "f" THEN "\f"
    ELSE IF c = "n" THEN "\n"
    ELSE IF c = "r" THEN "\r"
    ELSE IF c = "t" THEN "\t"
    ELSE c

RECURSIVE parseString(_, _, _)
\* The rest of a string literal whose opening quote precedes index i:
\* [ok, val, next], val the characters read so far followed by the rest.
parseString(text, i, acc) ==
    IF i > Len(text) THEN ParseFail
    ELSE IF text[i] = "\"" THEN [ok |-> TRUE, val |-> acc, next |-> i + 1]
    ELSE IF text[i] = "\\" THEN
        IF i + 1 > Len(text) THEN ParseFail
        ELSE IF text[i + 1] \in {"\"", "\\", "/", "b", "f", "n", "r", "t"}
            THEN parseString(text, i + 2, Append(acc, Unescape(text[i + 1])))
        ELSE IF /\ text[i + 1] = "u"
                /\ i + 5 <= Len(text)
                /\ \A k \in 2..5 : IsHex(text[i + k])
            THEN parseString(text, i + 6,
                    Append(acc, CharOfCode(4096 * HexValue(text[i + 2])
                                           + 256 * HexValue(text[i + 3])
                                           + 16 * HexValue(text[i + 4])
                                           + HexValue(text[i + 5]))))
        ELSE ParseFail
    ELSE IF IsControl(text[i]) THEN ParseFail
    ELSE parseString(text, i + 1, Append(acc, text[i]))

\* An array index: the canonical decimal of an integer from 0 to 2^32 - 2.
MaxArrayIndex == <<"4", "2", "9", "4", "9", "6", "7", "2", "9", "4">>

\* The numeric order of two canonical decimals.
IndexLess(a, b) ==
    \/ Len(a) < Len(b)
    \/ /\ Len(a) = Len(b)
       /\ LET diff == {i \in 1..Len(a) : a[i] # b[i]}
          IN  diff # {} /\ DigitValue(a[Min(diff)]) < DigitValue(b[Min(diff)])

IsArrayIndex(key) ==
    /\ Len(key) \in 1..10
    /\ \A i \in 1..Len(key) : key[i] \in Digits
    /\ key[1] = "0" => Len(key) = 1
    /\ ~IndexLess(MaxArrayIndex, key)

\* The object built from the members read: a member whose key occurred
\* before replaces the value of that key.  The own property keys of an
\* object are its array indices in ascending order, then the other keys in
\* the order they were created.
ObjectOf(members) ==
    LET firsts == SelectSeq([i \in 1..Len(members) |-> i],
                            LAMBDA i : \A j \in 1..(i - 1) : members[j][1] # members[i][1])
        indices == {i \in 1..Len(members) :
                       /\ \A j \in 1..(i - 1) : members[j][1] # members[i][1]
                       /\ IsArrayIndex(members[i][1])}
        ascending == [n \in 1..Cardinality(indices) |->
                        CHOOSE i \in indices :
                            Cardinality({j \in indices :
                                IndexLess(members[j][1], members[i][1])}) = n - 1]
        order == ascending \o SelectSeq(firsts, LAMBDA i : i \notin indices)
    IN  Object([n \in 1..Len(order) |->
            <<members[order[n]][1],
              members[Max({j \in 1..Len(members) :
                              members[j][1] = members[order[n]][1]})][2]>>])

RECURSIVE parseValue(_, _), parseElements(_, _, _), parseMembers(_, _, _)

\* One JSON value starting at index i: [ok, val, next].  An array or an
\* object is a new one.
parseValue(text, i) ==
    LET string(r) ==
            IF r.ok THEN [ok |-> TRUE, val |-> String(r.val), next |-> r.next]
            ELSE ParseFail
        created(r) == IF r.ok THEN [r EXCEPT !.val.ref = i] ELSE r
        array(j) ==
            IF j <= Len(text) /\ text[j] = "]"
            THEN [ok |-> TRUE, val |-> Array(<<>>), next |-> j + 1]
            ELSE parseElements(text, j, <<>>)
        object(j) ==
            IF j <= Len(text) /\ text[j] = "}"
            THEN [ok |-> TRUE, val |-> ObjectOf(<<>>), next |-> j + 1]
            ELSE parseMembers(text, j, <<>>)
        number(j) ==
            IF j = 0 THEN ParseFail
            ELSE [ok |-> TRUE, val |-> Number(NumberOf(SubSeq(text, i, j - 1))), next |-> j]
    IN  IF i > Len(text) THEN ParseFail
        ELSE IF text[i] = "\"" THEN string(parseString(text, i + 1, <<>>))
        ELSE IF text[i] = "[" THEN created(array(skipWs(text, i + 1)))
        ELSE IF text[i] = "{" THEN created(object(skipWs(text, i + 1)))
        ELSE IF StartsWith(text, i, <<"t", "r", "u", "e">>)
            THEN [ok |-> TRUE, val |-> Boolean(TRUE), next |-> i + 4]
        ELSE IF StartsWith(text, i, <<"f", "a", "l", "s", "e">>)
            THEN [ok |-> TRUE, val |-> Boolean(FALSE), next |-> i + 5]
        ELSE IF StartsWith(text, i, <<"n", "u", "l", "l">>)
            THEN [ok |-> TRUE, val |-> Null, next |-> i + 4]
        ELSE IF text[i] = "-" \/ text[i] \in Digits THEN number(scanNumber(text, i))
        ELSE ParseFail

\* value ("," value)* "]"
parseElements(text, i, acc) ==
    LET separator(v, j) ==
            IF j > Len(text) THEN ParseFail
            ELSE IF text[j] = "]"
                THEN [ok |-> TRUE, val |-> Array(Append(acc, v.val)), next |-> j + 1]
            ELSE IF text[j] = ","
                THEN parseElements(text, skipWs(text, j + 1), Append(acc, v.val))
            ELSE ParseFail
        element(v) == IF ~v.ok THEN ParseFail ELSE separator(v, skipWs(text, v.next))
    IN  element(parseValue(text, i))

\* string ":" value ("," string ":" value)* "}"
parseMembers(text, i, acc) ==
    LET separator(key, v, j) ==
            IF j > Len(text) THEN ParseFail
            ELSE IF text[j] = "}"
                THEN [ok |-> TRUE, val |-> ObjectOf(Append(acc, <<key.val, v.val>>)),
                      next |-> j + 1]
            ELSE IF text[j] = ","
                THEN parseMembers(text, skipWs(text, j + 1), Append(acc, <<key.val, v.val>>))
            ELSE ParseFail
        member(key, v) ==
            IF ~v.ok THEN ParseFail ELSE separator(key, v, skipWs(text, v.next))
        colon(key, j) ==
            IF j > Len(text) \/ text[j] # ":" THEN ParseFail
            ELSE member(key, parseValue(text, skipWs(text, j + 1)))
        name(key) == IF ~key.ok THEN ParseFail ELSE colon(key, skipWs(text, key.next))
    IN  IF i > Len(text) \/ text[i] # "\"" THEN ParseFail
        ELSE name(parseString(text, i + 1, <<>>))

\* JSON.parse(text): ok = FALSE stands for the SyntaxError it throws.
JSONparse(text) ==
    LET whole(r) ==
            IF r.ok /\ skipWs(text, r.next) = Len(text) + 1
            THEN [ok |-> TRUE, val |-> r.val]
            ELSE [ok |-> FALSE, val |-> Undefined]
    IN  whole(parseValue(text, skipWs(text, 1)))

----------------------------------------------------------------------------
(* Program state as a record, and the functions of app.ts over it *)

NoItem == [present |-> FALSE, text |-> <<>>]

\* The module state and the DOM state the handlers read and write, plus the
\* number of saveTodos and render calls made by the running handler.
State ==
    [todos |-> todos, storage |-> storage, currentFilter |-> currentFilter,
     selectedFilter |-> selectedFilter, rows |-> rows, focusedRow |-> focusedRow,
     todoCountText |-> todoCountText, mainDisplay |-> mainDisplay,
     footerDisplay |-> footerDisplay, toggleAllChecked |-> toggleAllChecked,
     saves |-> 0, renders |-> 0, error |-> ""]

\* function saveTodos()
saveTodos(s) ==
    [s EXCEPT !.storage = [present |-> TRUE, text |-> JSONstringify(s.todos)],
              !.saves = @ + 1]

\* function loadTodos(): [] when the item is absent or empty or does not
\* parse, otherwise whatever JSON.parse returned.
loadTodos(store) ==
    LET tryParse(parsed) == IF parsed.ok THEN parsed.val ELSE Array(<<>>)
    IN  IF ~store.present \/ store.text = <<>> THEN Array(<<>>)
        ELSE tryParse(JSONparse(store.text))

\* The filter predicate of render (lines 86-90).
Accepts(filter, t) ==
    IF filter = "active" THEN ~Completed(t)
    ELSE IF filter = "completed" THEN Completed(t)
    ELSE TRUE

FilterTodos(ts, filter) == SelectSeq(ts, LAMBDA t : Accepts(filter, t))

\* One <li>: the todo its handlers captured, whether startEdit has replaced
\* its view by an edit input, and the text that input holds.
ViewRow(t) == [t |-> t, editing |-> FALSE, value |-> <<>>]

\* The count text with the plural used for every count but zero and one.
CountText_pluralAboveOne(remaining) ==
    <<ToString(remaining), " item", IF remaining > 1 THEN "s" ELSE "", " left">>

\* `${remaining} item${remaining !== 1 ? 's' : ''} left`
CountText(remaining) ==
    <<ToString(remaining), " item", IF remaining # 1 THEN "s" ELSE "", " left">>

\* An uncaught TypeError: the function that runs is left at once.
Throw(s) == [s EXCEPT !.error = "TypeError"]

\* todos.length as a condition (lines 84, 134, 198), for todos that is not
\* null: the length of an array or a string, the own property of an object,
\* undefined for a boolean or a number.
HasLength(ts) ==
    IF IsArray(ts) THEN Len(ts) > 0
    ELSE IF ts[0].type = "string" THEN ts[0].val # <<>>
    ELSE Truthy(Prop(ts[0], K_length))

\* Building the row of t throws a TypeError (lines 97, 109): t is null, or
\* its id, or its title when that is neither null nor undefined, cannot be
\* made a string.
RowThrows(t) ==
    \/ IsNull(t)
    \/ ToStringThrows(Get(t, K_id))
    \/ ToStringThrows(Get(t, K_title))

RECURSIVE render(_), removeTodo(_, _), updateTodoTitle(_, _, _), commit(_, _, _)

\* removeTodo without the saveTodos call.
removeTodo_noSave(s, id) ==
    IF ReadThrows(s.todos) THEN Throw(s)
    ELSE render([s EXCEPT !.todos =
                    SelectSeq(@, LAMBDA t : ~StrictEquals(Get(t, K_id), id))])

\* function removeTodo(id)
removeTodo(s, id) ==
    IF ReadThrows(s.todos) THEN Throw(s)
    ELSE render(saveTodos([s EXCEPT !.todos =
                    SelectSeq(@, LAMBDA t : ~StrictEquals(Get(t, K_id), id))]))

\* updateTodoTitle without the render call.
updateTodoTitle_noRender(s, id, title) ==
    IF ReadThrows(s.todos) THEN Throw(s)
    ELSE saveTodos(
        [s EXCEPT !.todos =
            [k \in 1..Len(@) |->
                IF StrictEquals(Get(@[k], K_id), id)
                THEN With(@[k], K_title, String(trim(title)))
                ELSE @[k]]])

\* function updateTodoTitle(id, title)
updateTodoTitle(s, id, title) ==
    IF ReadThrows(s.todos) THEN Throw(s)
    ELSE render(saveTodos(
        [s EXCEPT !.todos =
            [k \in 1..Len(@) |->
                IF StrictEquals(Get(@[k], K_id), id)
                THEN With(@[k], K_title, String(trim(title)))
                ELSE @[k]]]))

\* commit without the empty-value branch.
commit_alwaysUpdate(s, todo, value) == updateTodoTitle(s, Get(todo, K_id), trim(value))

\* function commit() of startEdit, for the edit input of a row that captured
\* todo and now holds the text value.
commit(s, todo, value) ==
    LET val == trim(value)
    IN  IF val # <<>> THEN updateTodoTitle(s, Get(todo, K_id), val)
        ELSE removeTodo(s, Get(todo, K_id))

\* function render().  Line 84 throws a TypeError when todos is null, line 86
\* when it is another value that is no array, or, under the filters "active"
\* and "completed", when an element is null.  Clearing #todo-list (line 92)
\* removes the focused edit input, if there is one; a browser that dispatches
\* blur on removal runs its blur listener (commit) at that point, after the
\* list to draw was computed and before the children are removed, and an
\* error that listener throws does not reach render.  The row of an element
\* is appended when it is complete (line 126), so an element whose row cannot
\* be built ends render with the rows before it in the list.
render(s) ==
    LET filtered == FilterTodos(s.todos, s.currentFilter)
        throwing == {k \in 1..Len(filtered) : RowThrows(filtered[k])}
        drawn == IF throwing = {} THEN Len(filtered) ELSE Min(throwing) - 1
        count(s3) ==
            IF ReadThrows(s3.todos) THEN Throw(s3)
            ELSE [s3 EXCEPT !.todoCountText =
                                CountText(Len(SelectSeq(s3.todos, LAMBDA t : ~Completed(t)))),
                            !.footerDisplay = IF HasLength(s3.todos) THEN "flex" ELSE "none",
                            !.toggleAllChecked =
                                Len(s3.todos) > 0
                                /\ \A k \in 1..Len(s3.todos) : Completed(s3.todos[k])]
        append(s3) == IF throwing # {} THEN Throw(s3) ELSE count(s3)
        clear(s2) ==
            append([s2 EXCEPT !.rows = [k \in 1..drawn |-> ViewRow(filtered[k])],
                              !.focusedRow = 0, !.error = ""])
        filter(s1) ==
            IF ~IsArray(s.todos) \/ (s.currentFilter # "all" /\ ReadThrows(s.todos))
                THEN Throw(s1)
            ELSE clear(IF s1.focusedRow # 0 /\ blurOnRemoval
                       THEN commit([s1 EXCEPT !.focusedRow = 0],
                                   s1.rows[s1.focusedRow].t, s1.rows[s1.focusedRow].value)
                       ELSE s1)
        main(s0) ==
            IF ~IsArray(s.todos) /\ s.todos[0].type = "null" THEN Throw(s0)
            ELSE filter([s0 EXCEPT !.mainDisplay =
                                        IF HasLength(s.todos) THEN "block" ELSE "none"])
    IN  main([s EXCEPT !.renders = @ + 1])

\* addTodo without the early return on an empty title.
addTodo_noBlankCheck(s, title, rnd) ==
    LET t == [id |-> uid(rnd), title |-> trim(title), completed |-> FALSE]
    IN  IF ~IsArray(s.todos) THEN Throw(s)
        ELSE render(saveTodos([s EXCEPT !.todos = <<t>> \o @]))

\* function addTodo(title); rnd is what Math.random() yields inside uid().
\* todos.unshift throws a TypeError when todos is no array.
addTodo(s, title, rnd) ==
    LET t == [id |-> uid(rnd), title |-> trim(title), completed |-> FALSE]
    IN  IF t.title = <<>> THEN s
        ELSE IF ~IsArray(s.todos) THEN Throw(s)
        ELSE render(saveTodos([s EXCEPT !.todos = <<t>> \o @]))

\* toggleTodo without the saveTodos call.
toggleTodo_noSave(s, id) ==
    IF ReadThrows(s.todos) THEN Throw(s)
    ELSE render(
        [s EXCEPT !.todos =
            [k \in 1..Len(@) |->
                IF StrictEquals(Get(@[k], K_id), id)
                THEN With(@[k], K_completed, Boolean(~Completed(@[k])))
                ELSE @[k]]])

\* toggleTodo that sets the flag instead of negating it.
toggleTodo_setTrue(s, id) ==
    IF ReadThrows(s.todos) THEN Throw(s)
    ELSE render(saveTodos(
        [s EXCEPT !.todos =
            [k \in 1..Len(@) |->
                IF StrictEquals(Get(@[k], K_id), id)
                THEN With(@[k], K_completed, Boolean(TRUE))
                ELSE @[k]]]))

\* toggleTodo that moves the toggled tasks behind the others.
toggleTodo_moveToEnd(s, id) ==
    IF ReadThrows(s.todos) THEN Throw(s)
    ELSE render(saveTodos(
        [s EXCEPT !.todos =
            SelectSeq(@, LAMBDA t : ~StrictEquals(Get(t, K_id), id))
            \o [k \in 1..Len(SelectSeq(@, LAMBDA t : StrictEquals(Get(t, K_id), id))) |->
                    With(SelectSeq(@, LAMBDA t : StrictEquals(Get(t, K_id), id))[k],
                         K_completed,
                         Boolean(~Completed(
                            SelectSeq(@, LAMBDA t : StrictEquals(Get(t, K_id), id))[k])))]]))

\* function toggleTodo(id)
toggleTodo(s, id) ==
    IF ReadThrows(s.todos) THEN Throw(s)
    ELSE render(saveTodos(
        [s EXCEPT !.todos =
            [k \in 1..Len(@) |->
                IF StrictEquals(Get(@[k], K_id), id)
                THEN With(@[k], K_completed, Boolean(~Completed(@[k])))
                ELSE @[k]]]))

\* clearCompleted with the filter predicate inverted.
clearCompleted_keepsCompleted(s) ==
    IF ReadThrows(s.todos) THEN Throw(s)
    ELSE render(saveTodos([s EXCEPT !.todos = SelectSeq(@, LAMBDA t : Completed(t))]))

\* function clearCompleted()
clearCompleted(s) ==
    IF ReadThrows(s.todos) THEN Throw(s)
    ELSE render(saveTodos([s EXCEPT !.todos = SelectSeq(@, LAMBDA t : ~Completed(t))]))

\* setFilter without the assignment to currentFilter.
setFilter_noAssign(s, filter) ==
    render([s EXCEPT !.selectedFilter = filter])

\* function setFilter(filter)
setFilter(s, filter) ==
    render([s EXCEPT !.currentFilter = filter, !.selectedFilter = filter])

\* The edit input of row i is given the focus while the edit input of another
\* row may have it: that input loses the focus, and its blur listener runs
\* commit, whose error, if it throws one, stays in the listener.  A render in
\* that commit replaces every row, the row i and its input among them; row i
\* has the focus only if its input is still in the document.
focus(s, i) ==
    LET taken(c) == IF c.renders > s.renders THEN c ELSE [c EXCEPT !.focusedRow = i]
        blurred(c) == taken([c EXCEPT !.error = ""])
    IN  IF s.focusedRow # 0
        THEN blurred(commit([s EXCEPT !.focusedRow = 0],
                            s.rows[s.focusedRow].t, s.rows[s.focusedRow].value))
        ELSE [s EXCEPT !.focusedRow = i]

\* function startEdit(li, todo) for the li at index i of #todo-list: the view
\* is replaced by an input holding todo.title as a string ("" for null),
\* without its line breaks, and the input is given the focus (line 148)
\* before line 158 gives it a blur listener.
startEdit(s, i) ==
    LET title == Get(s.rows[i].t, K_title)
        value == IF title.type = "null" THEN <<>> ELSE stripNewlines(ToStringOf(title))
    IN  IF ToStringThrows(title) THEN Throw(s)
        ELSE focus([s EXCEPT !.rows[i] = [t |-> @.t, editing |-> TRUE, value |-> value]], i)

\* The toggle-all handler without its render.
toggleAll_noRender(s) ==
    LET checked == s.toggleAllChecked
    IN  IF ~IsArray(s.todos) THEN Throw(s)
        ELSE saveTodos(
            [s EXCEPT !.todos =
                [k \in 1..Len(@) |-> With(@[k], K_completed, Boolean(checked))]])

\* The toggle-all handler changing only the tasks that are not completed.
toggleAll_onlyActive(s) ==
    LET checked == s.toggleAllChecked
    IN  IF ~IsArray(s.todos) THEN Throw(s)
        ELSE render(saveTodos(
            [s EXCEPT !.todos =
                [k \in 1..Len(@) |->
                    IF Completed(@[k]) THEN @[k]
                    ELSE With(@[k], K_completed, Boolean(checked))]]))

\* The change handler of #toggle-all (lines 179-184); the click that raises
\* the event has already flipped the checkbox.  The callback of todos.map
\* reads no property of the element, and { ...null } is {}.
toggleAll(s) ==
    LET checked == s.toggleAllChecked
    IN  IF ~IsArray(s.todos) THEN Throw(s)
        ELSE render(saveTodos(
            [s EXCEPT !.todos =
                [k \in 1..Len(@) |-> With(@[k], K_completed, Boolean(checked))]]))

\* function init() (lines 195-201): line 198 throws a TypeError when todos is
\* null, and an error in setFilter leaves init() at once.
init(s) ==
    LET second(s2) == IF s2.error # "" THEN s2 ELSE render(s2)
    IN  IF ~IsArray(s.todos) /\ s.todos[0].type = "null" THEN Throw(s)
        ELSE second(setFilter(
                [s EXCEPT !.mainDisplay = IF HasLength(s.todos) THEN "block" ELSE "none"],
                "all"))

\* Page load: the module body (lines 14-21, 169-192) and init() on a fresh
\* document, with store the localStorage item.
boot(store) ==
    init([todos |-> AsTodos(loadTodos(store)), storage |-> store,
          currentFilter |-> "all", selectedFilter |-> "all", rows |-> <<>>,
          focusedRow |-> 0, todoCountText |-> <<>>, mainDisplay |-> "",
          footerDisplay |-> "", toggleAllChecked |-> FALSE,
          saves |-> 0, renders |-> 0, error |-> ""])

----------------------------------------------------------------------------
(* Actions: one per event handler *)

NoId == <<>>

\* The handler named op has run to completion and left the program in s.
Finish(s, op, id, arg) ==
    \E r \in {s} :
        /\ todos' = r.todos
        /\ storage' = r.storage
        /\ currentFilter' = r.currentFilter
        /\ selectedFilter' = r.selectedFilter
        /\ rows' = r.rows
        /\ focusedRow' = r.focusedRow
        /\ todoCountText' = r.todoCountText
        /\ mainDisplay' = r.mainDisplay
        /\ footerDisplay' = r.footerDisplay
        /\ toggleAllChecked' = r.toggleAllChecked
        /\ last' = [op |-> op, id |-> id, arg |-> arg, saves |-> r.saves,
                    renders |-> r.renders, error |-> r.error,
                    before |-> IF IsArray(todos) THEN Len(todos) ELSE 0]
        /\ UNCHANGED blurOnRemoval

Init ==
    /\ blurOnRemoval \in BOOLEAN
    /\ \E s \in {boot(NoItem)} :
        /\ todos = s.todos
        /\ storage = s.storage
        /\ currentFilter = s.currentFilter
        /\ selectedFilter = s.selectedFilter
        /\ rows = s.rows
        /\ focusedRow = s.focusedRow
        /\ todoCountText = s.todoCountText
        /\ mainDisplay = s.mainDisplay
        /\ footerDisplay = s.footerDisplay
        /\ toggleAllChecked = s.toggleAllChecked
        /\ last = [op |-> "init", id |-> NoId, arg |-> <<>>, saves |-> s.saves,
                   renders |-> s.renders, error |-> s.error, before |-> 0]

\* The page is loaded again (lines 14-21, 195-201).
Reload == Finish(boot(storage), "init", NoId, <<>>)

\* keydown on #new-todo with key Enter (lines 169-175); value is the text in
\* the input, which the handler clears afterwards.  Pointer and keyboard
\* events of the user reach another element only after a focused edit input
\* has lost the focus (EditBlur); the dblclick on a label is taken in either
\* case, since startEdit itself moves the focus (line 148).
NewTodoKeydownOf(values, rnds) ==
    /\ focusedRow = 0
    /\ \E value \in values, rnd \in rnds :
        /\ (IsArray(todos) /\ trim(value) # <<>>) => Len(todos) < MaxTodos
        /\ Finish(addTodo(State, value, rnd), "newTodoKeydown", uid(rnd), value)

NewTodoKeydown == NewTodoKeydownOf(RawTitles, RandomStrings)

\* The id the handlers of row i captured (t.id, lines 105, 119; todo.id,
\* lines 154, 155), as last records it.
RowId(i) == Plain(Get(rows[i].t, K_id))

\* change on the checkbox of row i (line 105), which a row has while it is
\* not edited
CheckboxChange ==
    /\ focusedRow = 0
    /\ \E i \in 1..Len(rows) :
        /\ ~rows[i].editing
        /\ Finish(toggleTodo(State, Get(rows[i].t, K_id)), "checkboxChange", RowId(i), <<>>)

\* click on the destroy button of row i (line 119), which a row has while it
\* is not edited
DestroyClick ==
    /\ focusedRow = 0
    /\ \E i \in 1..Len(rows) :
        /\ ~rows[i].editing
        /\ Finish(removeTodo(State, Get(rows[i].t, K_id)), "destroyClick", RowId(i), <<>>)

\* dblclick on the label of row i (line 113), which a row has while it is
\* not edited; the edit input of another row may have the focus when the
\* event is dispatched.  The argument recorded is the draft of that input.
LabelDblclick ==
    \E i \in 1..Len(rows) :
        /\ ~rows[i].editing
        /\ Finish(startEdit(State, i), "labelDblclick", RowId(i),
                  IF focusedRow # 0 THEN rows[focusedRow].value ELSE <<>>)

\* The user types in the focused edit input.
EditInputOf(values) ==
    /\ focusedRow # 0
    /\ \E value \in values :
        /\ value # rows[focusedRow].value
        /\ Finish([State EXCEPT !.rows[focusedRow].value = value],
                  "editInput", RowId(focusedRow), value)

EditInput == EditInputOf(RawTitles)

\* keydown on the edit input with key Enter (lines 159-161)
EditEnter ==
    /\ focusedRow # 0
    /\ Finish(commit(State, rows[focusedRow].t, rows[focusedRow].value),
              "editEnter", RowId(focusedRow), rows[focusedRow].value)

\* keydown on the edit input with key Escape (lines 162-164)
EditEscape ==
    /\ focusedRow # 0
    /\ Finish(render(State), "editEscape", RowId(focusedRow), rows[focusedRow].value)

\* blur of the edit input (line 158): the focus has left it when the handler runs.
EditBlur ==
    /\ focusedRow # 0
    /\ Finish(commit([State EXCEPT !.focusedRow = 0],
                     rows[focusedRow].t, rows[focusedRow].value),
              "editBlur", RowId(focusedRow), rows[focusedRow].value)

\* click on #clear-completed (line 177)
ClearCompletedClick ==
    /\ focusedRow = 0
    /\ Finish(clearCompleted(State), "clearCompletedClick", NoId, <<>>)

\* change on #toggle-all (lines 179-184)
ToggleAllChange ==
    /\ focusedRow = 0
    /\ Finish(toggleAll([State EXCEPT !.toggleAllChecked = ~@]),
              "toggleAllChange", NoId, <<>>)

\* click on a .filters anchor (lines 186-192)
FilterClick ==
    /\ focusedRow = 0
    /\ \E f \in Filters : Finish(setFilter(State, f), "filterClick", NoId, <<f>>)

Next ==
    \/ Reload
    \/ NewTodoKeydown
    \/ CheckboxChange
    \/ DestroyClick
    \/ LabelDblclick
    \/ EditInput
    \/ EditEnter
    \/ EditEscape
    \/ EditBlur
    \/ ClearCompletedClick
    \/ ToggleAllChange
    \/ FilterClick

Spec == Init /\ [][Next]_vars

----------------------------------------------------------------------------
(* The functions called directly, on any collection the program can hold *)

Titles == {trim(str) : str \in RawTitles} \ {<<>>}

TodoValues == [id : Ids, title : Titles, completed : BOOLEAN]

Collections == UNION {[1..n -> TodoValues] : n \in 0..MaxTodos}

\* The program holding collection ts under filter f, saved and rendered.
Mounted(ts, f) ==
    LET s0 == boot(NoItem)
    IN  render(saveTodos([s0 EXCEPT !.todos = ts, !.currentFilter = f,
                                    !.selectedFilter = f]))

InitUnit ==
    /\ blurOnRemoval \in BOOLEAN
    /\ \E ts \in Collections, f \in Filters :
        \E s \in {Mounted(ts, f)} :
        /\ todos = s.todos
        /\ storage = s.storage
        /\ currentFilter = s.currentFilter
        /\ selectedFilter = s.selectedFilter
        /\ rows = s.rows
        /\ focusedRow = s.focusedRow
        /\ todoCountText = s.todoCountText
        /\ mainDisplay = s.mainDisplay
        /\ footerDisplay = s.footerDisplay
        /\ toggleAllChecked = s.toggleAllChecked
        /\ last = [op |-> "init", id |-> NoId, arg |-> <<>>, saves |-> 0, renders |-> 0,
                   error |-> "", before |-> 0]

\* updateTodoTitle(id, title) with any id and any text
CallUpdateTodoTitle ==
    \E id \in Ids, title \in RawTitles :
        Finish(updateTodoTitle(State, String(id), title), "updateTodoTitle", id, title)

\* removeTodo(id) with any id
CallRemoveTodo ==
    \E id \in Ids : Finish(removeTodo(State, String(id)), "removeTodo", id, <<>>)

NextUnit ==
    \/ CallUpdateTodoTitle
    \/ CallRemoveTodo

SpecUnit == InitUnit /\ [][NextUnit]_vars

----------------------------------------------------------------------------
(* One direct call of a function or handler, on any collection of up to *)
(* MaxCallTodos tasks *)

\* Largest collection a direct call is made on.
MaxCallTodos == 3

CallCollections == UNION {[1..n -> TodoValues] : n \in 0..MaxCallTodos}

InitCall ==
    /\ blurOnRemoval \in BOOLEAN
    /\ \E ts \in CallCollections, f \in Filters :
        \E s \in {Mounted(ts, f)} :
        /\ todos = s.todos
        /\ storage = s.storage
        /\ currentFilter = s.currentFilter
        /\ selectedFilter = s.selectedFilter
        /\ rows = s.rows
        /\ focusedRow = s.focusedRow
        /\ todoCountText = s.todoCountText
        /\ mainDisplay = s.mainDisplay
        /\ footerDisplay = s.footerDisplay
        /\ toggleAllChecked = s.toggleAllChecked
        /\ last = [op |-> "init", id |-> NoId, arg |-> <<>>, saves |-> 0, renders |-> 0,
                   error |-> "", before |-> 0]

\* toggleTodo(id) with any id
CallToggleTodo ==
    /\ last.op = "init"
    /\ \E id \in Ids : Finish(toggleTodo(State, String(id)), "toggleTodo", id, <<>>)

\* clearCompleted()
CallClearCompleted ==
    /\ last.op = "init"
    /\ Finish(clearCompleted(State), "clearCompleted", NoId, <<>>)

\* The change handler of #toggle-all with the checkbox in either position.
CallToggleAll ==
    /\ last.op = "init"
    /\ \E checked \in BOOLEAN :
        Finish(toggleAll([State EXCEPT !.toggleAllChecked = checked]), "toggleAll", NoId,
               <<IF checked THEN "true" ELSE "false">>)

NextCall ==
    \/ CallToggleTodo
    \/ CallClearCompleted
    \/ CallToggleAll

SpecCall == InitCall /\ [][NextCall]_vars

----------------------------------------------------------------------------
(* The page loaded with any value the storage key can hold, and the events *)
(* it handles afterwards *)

\* JSON.stringify of the collections the application itself writes.
TaskArrayTexts == {JSONstringify(ts) : ts \in Collections}

\* Texts JSON.parse rejects: a task array cut short, a bare word, a string
\* with a raw line feed, an array with a trailing comma, a number with a
\* leading zero.
UnparsableTexts ==
    {SubSeq(text, 1, Len(text) - 1) : text \in TaskArrayTexts}
        \cup { <<"x">>,
               <<"\"", "a", "\n", "b", "\"">>,
               <<"[", "1", ",", "]">>,
               <<"0", "1">> }

\* Task arrays that JSON.stringify(todos) does not produce from the objects
\* addTodo builds: white space and escapes in [ ] and
\* [{"id":"i", "title":"\u0061\/", "completed":false}]; the properties in
\* another order in [{"title":"a","id":"i","completed":true}]; other
\* properties, an array index and a number below the least double among them,
\* in [{"id":"i","x":1e-400,"1":true,"title":"a","completed":false}]; and a
\* surrogate without its pair in [{"id":"i","title":"\ud800","completed":false}].
OtherTaskArrayTexts ==
    { <<"[", " ", "]">>,
      <<"[", "{">> \o Quote(K_id) \o <<":">> \o Quote(<<"i">>) \o <<",", " ">>
          \o Quote(K_title) \o <<":", "\"", "\\", "u", "0", "0", "6", "1", "\\", "/", "\"">>
          \o <<",", "\n">> \o Quote(K_completed) \o <<":", "f", "a", "l", "s", "e", "}", "]">>,
      <<"[", "{">> \o Quote(K_title) \o <<":">> \o Quote(<<"a">>) \o <<",">>
          \o Quote(K_id) \o <<":">> \o Quote(<<"i">>) \o <<",">>
          \o Quote(K_completed) \o <<":", "t", "r", "u", "e", "}", "]">>,
      <<"[", "{">> \o Quote(K_id) \o <<":">> \o Quote(<<"i">>) \o <<",">>
          \o Quote(<<"x">>) \o <<":", "1", "e", "-", "4", "0", "0", ",">>
          \o Quote(<<"1">>) \o <<":", "t", "r", "u", "e", ",">>
          \o Quote(K_title) \o <<":">> \o Quote(<<"a">>) \o <<",">>
          \o Quote(K_completed) \o <<":", "f", "a", "l", "s", "e", "}", "]">>,
      <<"[", "{">> \o Quote(K_id) \o <<":">> \o Quote(<<"i">>) \o <<",">>
          \o Quote(K_title) \o <<":", "\"", "\\", "u", "d", "8", "0", "0", "\"", ",">>
          \o Quote(K_completed) \o <<":", "f", "a", "l", "s", "e", "}", "]">> }

\* Texts JSON.parse accepts that are no array of tasks: null, 1, "", {},
\* {"length":1}, {"length":1e-400}, [null], [1], [true], ["a"], [{"id":"i"}],
\* a task with the number 0 as its completed property behind a task,
\* [{"id":"i","title":"a","completed":1e-400}], null behind a task,
\* [{"id":{"toString":null},"title":"a"}], whose id cannot be made a string,
\* and [[true,"a"]].
OtherJsonTexts ==
    { <<"n", "u", "l", "l">>,
      <<"1">>,
      <<"\"", "\"">>,
      <<"{", "}">>,
      <<"{">> \o Quote(K_length) \o <<":", "1", "}">>,
      <<"{">> \o Quote(K_length) \o <<":", "1", "e", "-", "4", "0", "0", "}">>,
      <<"[", "n", "u", "l", "l", "]">>,
      <<"[", "1", "]">>,
      <<"[", "t", "r", "u", "e", "]">>,
      <<"[">> \o Quote(<<"a">>) \o <<"]">>,
      <<"[", "{">> \o Quote(K_id) \o <<":">> \o Quote(<<"i">>) \o <<"}", "]">>,
      <<"[">> \o stringifyTodo([id |-> <<"i">>, title |-> <<"a">>, completed |-> TRUE])
          \o <<",", "{">> \o Quote(K_id) \o <<":">> \o Quote(<<"i">>) \o <<",">>
          \o Quote(K_title) \o <<":">> \o Quote(<<"a">>) \o <<",">>
          \o Quote(K_completed) \o <<":", "0", "}", "]">>,
      <<"[", "{">> \o Quote(K_id) \o <<":">> \o Quote(<<"i">>) \o <<",">>
          \o Quote(K_title) \o <<":">> \o Quote(<<"a">>) \o <<",">>
          \o Quote(K_completed) \o <<":", "1", "e", "-", "4", "0", "0", "}", "]">>,
      <<"[">> \o stringifyTodo([id |-> <<"i">>, title |-> <<"a">>, completed |-> FALSE])
          \o <<",", "n", "u", "l", "l", "]">>,
      <<"[", "{">> \o Quote(K_id) \o <<":", "{">> \o Quote(K_toString)
          \o <<":", "n", "u", "l", "l", "}", ",">> \o Quote(K_title) \o <<":">>
          \o Quote(<<"a">>) \o <<"}", "]">>,
      <<"[", "[", "t", "r", "u", "e", ",">> \o Quote(<<"a">>) \o <<"]", "]">> }

StoredValues ==
    {NoItem, [present |-> TRUE, text |-> <<>>]}
        \cup {[present |-> TRUE, text |-> text] :
                text \in TaskArrayTexts \cup OtherTaskArrayTexts
                         \cup UnparsableTexts \cup OtherJsonTexts}

\* The document before the module body has run, with the item left in
\* localStorage by an earlier visit or by anything else on the origin.
InitLoad ==
    /\ blurOnRemoval \in BOOLEAN
    /\ storage \in StoredValues
    /\ todos = <<>>
    /\ currentFilter = "all"
    /\ selectedFilter = "all"
    /\ rows = <<>>
    /\ focusedRow = 0
    /\ todoCountText = <<>>
    /\ mainDisplay = ""
    /\ footerDisplay = ""
    /\ toggleAllChecked = FALSE
    /\ last = [op |-> "none", id |-> NoId, arg |-> <<>>, saves |-> 0, renders |-> 0,
               error |-> "", before |-> 0]

\* let todos: Todo[] = loadTodos()  (line 20); the argument recorded is the
\* type of the value returned.
LoadTodos ==
    /\ last.op = "none"
    /\ Finish([State EXCEPT !.todos = AsTodos(loadTodos(storage))], "loadTodos", NoId,
              <<loadTodos(storage).type>>)

\* The rest of the module body: the listeners are attached (lines 169-192)
\* and init() runs (lines 195-201).
Boot ==
    /\ last.op = "loadTodos"
    /\ Finish(init(State), "boot", NoId, last.arg)

\* The script has run to its end, whether init() returned or threw: from
\* then on the listeners handle the events of the user.
Loaded == last.op \notin {"none", "loadTodos"}

\* The user clicks into the edit input of row i, which does not have the
\* focus: it lost it to the edit input of another row (line 148) or to
\* another element, and the commit of its blur listener (line 158) threw
\* before render replaced the rows.
EditFocus ==
    \E i \in 1..Len(rows) :
        /\ rows[i].editing
        /\ focusedRow # i
        /\ Finish(focus(State, i), "editFocus", RowId(i),
                  IF focusedRow # 0 THEN rows[focusedRow].value ELSE <<>>)

\* The texts the user types after a load of any stored value: a blank one
\* and one that is trimmed.
LoadTitles == { <<>>, <<" ", "a", "\t">> }

\* Math.random().toString(36) after a load of any stored value; the id it
\* gives is the one the stored tasks have.
LoadRandomStrings == { <<"0", ".", "i">> }

\* The page is loaded, and then handles the events of the user.
NextLoad ==
    \/ LoadTodos
    \/ Boot
    \/ Loaded /\ Reload
    \/ Loaded /\ NewTodoKeydownOf(LoadTitles, LoadRandomStrings)
    \/ Loaded /\ CheckboxChange
    \/ Loaded /\ DestroyClick
    \/ Loaded /\ LabelDblclick
    \/ Loaded /\ EditInputOf(LoadTitles)
    \/ Loaded /\ EditEnter
    \/ Loaded /\ EditEscape
    \/ Loaded /\ EditBlur
    \/ Loaded /\ EditFocus
    \/ Loaded /\ ClearCompletedClick
    \/ Loaded /\ ToggleAllChange
    \/ Loaded /\ FilterClick

SpecLoad == InitLoad /\ [][NextLoad]_vars

----------------------------------------------------------------------------
(* Claims *)

\* C1: in every state the value stored under the storage key deserializes via
\* loadTodos to exactly the in-memory collection (same ids, titles, completed
\* flags, same order), so a reload starts from the collection last seen.
C1_PersistedEqualsCollection == AsTodos(loadTodos(storage)) = todos

\* C1 witness: a toggle has been persisted on a collection of two different tasks.
C1_Witness ==
    /\ last.op = "checkboxChange"
    /\ last.saves = 1
    /\ Len(todos) = 2
    /\ todos[1].title # todos[2].title
    /\ todos[1].completed /\ ~todos[2].completed
    /\ storage.present

\* C2: starting from an empty collection, every task of every reachable
\* collection has a title that is non-empty and equal to its trimmed form; and
\* a commit of an edit whose draft trims to empty leaves no task with the
\* edited task's id.
C2_TitlesNonEmptyTrimmed ==
    /\ [](\A k \in 1..Len(todos) :
            todos[k].title # <<>> /\ trim(todos[k].title) = todos[k].title)
    /\ [][(/\ focusedRow # 0
           /\ last'.op \in {"editEnter", "editBlur"}
           /\ IsBlank(rows[focusedRow].value))
          => ~HasId(todos', rows[focusedRow].t.id)]_vars

\* C2 witness: an edit with a blank, non-empty draft was committed and the
\* task is gone while another task remains.
C2_Witness ==
    /\ last.op = "editEnter"
    /\ last.arg = <<"\t", " ">>
    /\ Len(todos) = 1
    /\ ~HasId(todos, last.id)

\* C3: no two tasks of the collection have the same id.
C3_UniqueIds ==
    \A j, k \in 1..Len(todos) : todos[j].id = todos[k].id => j = k

\* C4: updateTodoTitle(id, rawTitle) with a rawTitle that is empty or
\* whitespace-only after trimming changes no task: the collection after the
\* call equals the collection before it, for every collection and every id.
C4_BlankUpdateRejected ==
    [][(last'.op = "updateTodoTitle" /\ IsBlank(last'.arg)) => todos' = todos]_vars

\* C5 as claimed: removeTodo(id) with an id that matches no task leaves the
\* collection unchanged and performs no write to storage and no render.
C5_AbsentRemoveSkipsPersist ==
    [][(last'.op = "removeTodo" /\ ~HasId(todos, last'.id))
        => todos' = todos /\ last'.saves = 0 /\ last'.renders = 0]_vars

\* C5 amended: removeTodo(id) with an id that matches no task leaves the
\* collection unchanged, and still writes the serialized collection to storage
\* once and renders once.
C5_AbsentRemovePersistsSameCollection ==
    [][(last'.op = "removeTodo" /\ ~HasId(todos, last'.id))
        => /\ todos' = todos
           /\ last'.saves = 1 /\ last'.renders = 1
           /\ storage' = [present |-> TRUE, text |-> JSONstringify(todos)]
           /\ AsTodos(loadTodos(storage')) = todos]_vars

\* C5 witness: removeTodo ran with an id no task has, on a full collection.
C5_Witness ==
    /\ last.op = "removeTodo"
    /\ Len(todos) = MaxTodos
    /\ ~HasId(todos, last.id)
    /\ last.saves = 1

\* C6: addTodo(rawTitle) with a rawTitle blank after trimming changes nothing:
\* the collection, the persisted value and everything rendered stay as they
\* were, and neither saveTodos nor render is called.
C6_BlankAddIsNoOp ==
    [][(last'.op = "newTodoKeydown" /\ IsBlank(last'.arg))
        => /\ todos' = todos /\ storage' = storage
           /\ last'.saves = 0 /\ last'.renders = 0
           /\ UNCHANGED <<currentFilter, selectedFilter, rows, focusedRow, todoCountText,
                          mainDisplay, footerDisplay, toggleAllChecked>>]_vars

\* C6 witness: Enter on a white-space-only text with one task in the collection.
C6_Witness ==
    /\ last.op = "newTodoKeydown"
    /\ last.arg = <<"\t", " ">>
    /\ last.saves = 0 /\ last.renders = 0
    /\ Len(todos) = 1

\* C7: addTodo(rawTitle) with a rawTitle non-empty after trimming yields one
\* new task {fresh id, title = trimmed rawTitle, completed = false} at the
\* front, followed by the previous tasks unchanged in their order; the id is
\* fresh when no task of the collection has it.
C7_AddPrependsFreshTask ==
    [][(last'.op = "newTodoKeydown" /\ ~IsBlank(last'.arg))
        => /\ ~HasId(todos, last'.id)
           /\ todos' = <<[id |-> last'.id, title |-> trim(last'.arg),
                          completed |-> FALSE]>> \o todos]_vars

\* The part of C7 that rests on no fresh id: the new task has the id uid()
\* returned, the trimmed title and completed = false, and stands in front of
\* the previous tasks, which are unchanged in their order.
C7_AddPrependsTrimmed ==
    [][(last'.op = "newTodoKeydown" /\ ~IsBlank(last'.arg))
        => todos' = <<[id |-> last'.id, title |-> trim(last'.arg),
                       completed |-> FALSE]>> \o todos]_vars

\* C8 as claimed: Escape in an edit session leaves the collection and the
\* persisted value as they were before, whatever the draft.
C8_CancelMutatesNothing ==
    [][last'.op = "editEscape" => todos' = todos /\ storage' = storage]_vars

\* The collection without its k-th task.
Without(ts, k) == SubSeq(ts, 1, k - 1) \o SubSeq(ts, k + 1, Len(ts))

\* C9 as claimed: committing the edit of a task T of the collection (Enter or
\* blur) ends the session and, if the trimmed draft is non-empty, gives T that
\* title and changes nothing else; if it is empty, removes T and changes
\* nothing else.
C9_CommitChangesOnlyEditedTask ==
    [][(/\ focusedRow # 0
        /\ last'.op \in {"editEnter", "editBlur"}
        /\ HasId(todos, rows[focusedRow].t.id))
        => /\ focusedRow' = 0
           /\ \A k \in 1..Len(rows') : ~rows'[k].editing
           /\ \E p \in 1..Len(todos) :
                /\ todos[p].id = rows[focusedRow].t.id
                /\ todos' = IF IsBlank(rows[focusedRow].value)
                            THEN Without(todos, p)
                            ELSE [todos EXCEPT ![p].title = trim(rows[focusedRow].value)]]_vars

\* C10: at most one row of the list is replaced by an edit input, and that
\* input is the focused one.
C10_AtMostOneEditSession ==
    /\ Cardinality({k \in 1..Len(rows) : rows[k].editing}) <= 1
    /\ \A k \in 1..Len(rows) : rows[k].editing => focusedRow = k
    /\ focusedRow \in 0..Len(rows)
    /\ focusedRow # 0 => rows[focusedRow].editing

\* C10 witness: a second session, on the second row, after the first row was
\* renamed in an earlier session.
C10_Witness ==
    /\ Len(rows) = 2
    /\ focusedRow = 2 /\ rows[2].editing /\ ~rows[1].editing
    /\ rows[2].value = <<"a">> /\ rows[2].t.title = <<"\"", "\t", "\\">>
    /\ last.op = "editInput"

\* The completed flag of every task with the given id negated, nothing else
\* changed.
Flipped(ts, id) ==
    [k \in 1..Len(ts) |->
        IF ts[k].id = id THEN [ts[k] EXCEPT !.completed = ~ts[k].completed] ELSE ts[k]]

\* C11: toggleTodo(id) negates the completed flag of the task with the matching
\* id and changes nothing else: every other task keeps its id, title, completed
\* flag and position; and toggleTodo(id) applied once more to the result gives
\* back the collection it started from.
C11_ToggleFlipsOnlyMatching ==
    [][last'.op = "toggleTodo"
        => /\ todos' = Flipped(todos, last'.id)
           /\ Len(todos') = Len(todos)
           /\ \A k \in 1..Len(todos) :
                /\ todos'[k].id = todos[k].id
                /\ todos'[k].title = todos[k].title
                /\ todos'[k].completed = (todos[k].completed # (todos[k].id = last'.id))
           /\ toggleTodo(State', String(last'.id)).todos = todos]_vars

\* C11 witness: the second of three tasks was toggled to completed, between
\* an active and a completed task with another id.
C11_Witness ==
    /\ last.op = "toggleTodo"
    /\ Len(todos) = 3
    /\ todos[2].id = last.id /\ todos[2].completed
    /\ todos[1].id # last.id /\ ~todos[1].completed
    /\ todos[3].id # last.id /\ todos[3].completed

\* The text is JSON for an array of Todo objects.
IsTaskArrayText(text) ==
    LET parsed == JSONparse(text)
    IN  /\ parsed.ok
        /\ parsed.val.type = "array"
        /\ \A k \in 1..Len(parsed.val.val) : IsTodoObject(parsed.val.val[k])

\* C12: loadTodos returns the stored collection only when the stored value is
\* a well-formed task array, and the empty collection for every other stored
\* value: key absent, unparsable text, or JSON that is no array of tasks.
C12_LoadYieldsTasksOrEmpty ==
    last.op = "loadTodos"
        => /\ last.arg = <<"array">>
           /\ IF storage.present /\ IsTaskArrayText(storage.text)
              THEN /\ \A k \in 1..Len(todos) : IsTodo(todos[k])
                   /\ storage.text \in TaskArrayTexts => JSONstringify(todos) = storage.text
              ELSE todos = <<>>

\* C13: in every state in which the next user action can be accepted, the
\* rendered list is exactly the tasks of the current collection that the
\* current filter accepts, each once and in collection order.
C13_RowsAreFilteredCollection ==
    [k \in 1..Len(rows) |-> rows[k].t] = FilterTodos(todos, currentFilter)

\* C14: setFilter(next) is never rejected and changes only the filter: for
\* every filter value it returns with the active filter equal to next and with
\* the collection and the persisted value untouched (no saveTodos call), and so
\* does every click on a filter link; the filter is not part of what is
\* persisted, and after a reload it is "all".
C14_SetFilterChangesOnlyFilter ==
    /\ [](focusedRow = 0 =>
            \A next \in Filters :
                LET r == setFilter(State, next) IN
                /\ r.currentFilter = next
                /\ r.todos = todos /\ r.storage = storage /\ r.saves = 0)
    /\ [][last'.op = "filterClick"
            => /\ <<currentFilter'>> = last'.arg
               /\ todos' = todos /\ storage' = storage /\ last'.saves = 0]_vars
    /\ [][last'.op = "init"
            => currentFilter' = "all" /\ todos' = todos /\ storage' = storage]_vars

\* C14 witness: a click switched the filter to "completed", which hides both
\* tasks of the collection.
C14_Witness ==
    /\ last.op = "filterClick"
    /\ last.arg = <<"completed">>
    /\ currentFilter = "completed"
    /\ Len(todos) = 2 /\ rows = <<>>

\* The positions of the tasks that are not completed.
ActivePositions(ts) == {k \in 1..Len(ts) : ~ts[k].completed}

\* The j-th smallest element of a set of numbers.
Nth(S, j) == CHOOSE x \in S : Cardinality({y \in S : y <= x}) = j

\* C15: clearCompleted leaves exactly the tasks with completed = false: as many
\* as there were, each unchanged, in their previous relative order, and no task
\* with completed = true.
C15_ClearCompletedKeepsActiveInOrder ==
    [][last'.op = "clearCompleted"
        => /\ Len(todos') = Cardinality(ActivePositions(todos))
           /\ \A j \in 1..Len(todos') :
                /\ todos'[j] = todos[Nth(ActivePositions(todos), j)]
                /\ ~todos'[j].completed]_vars

\* C15 witness: the completed middle task of three was removed and the two
\* different active tasks around it remain.
C15_Witness ==
    /\ last.op = "clearCompleted"
    /\ last.before = 3
    /\ Len(todos) = 2
    /\ todos[1] # todos[2]
    /\ todos[1].title = <<"\"", "\t", "\\">> /\ todos[2].title = <<"a">>

\* C16: the toggle-all handler with the checkbox at v sets completed = v on
\* every task and keeps every id, every title and the order; on a non-empty
\* collection the render that follows leaves toggle-all checked = v, and for
\* v = true a remaining count of zero.
C16_ToggleAllSetsEveryTask ==
    [][last'.op = "toggleAll"
        => LET v == (last'.arg = <<"true">>) IN
           /\ Len(todos') = Len(todos)
           /\ \A k \in 1..Len(todos) :
                /\ todos'[k].completed = v
                /\ todos'[k].id = todos[k].id
                /\ todos'[k].title = todos[k].title
           /\ Len(todos) > 0 => toggleAllChecked' = v
           /\ (Len(todos) > 0 /\ v) => todoCountText' = <<"0", " item", "s", " left">>
           /\ last'.saves = 1 /\ last'.renders = 1]_vars

\* C16 witness: toggle-all with v = false on three tasks, one of which was
\* completed under the "completed" filter, so that no row is left.
C16_Witness ==
    /\ last.op = "toggleAll"
    /\ last.arg = <<"false">>
    /\ Len(todos) = 3
    /\ todos[1].id # todos[2].id
    /\ currentFilter = "completed" /\ rows = <<>>
    /\ ~toggleAllChecked

\* C17: the remaining-count text is "<N> item left" when N = 1 and
\* "<N> items left" for every other N, where N is the number of tasks with
\* completed = false in the whole collection, whatever the filter shows.
C17_CountTextSingularIffOne ==
    LET N == Cardinality(ActivePositions(todos))
    IN  /\ N = 1 => todoCountText = <<ToString(N), " item", "", " left">>
        /\ N # 1 => todoCountText = <<ToString(N), " item", "s", " left">>

\* C17 witness: one active task of two under the "completed" filter, whose
\* single row is the other task.
C17_Witness ==
    /\ Len(todos) = 2
    /\ Cardinality(ActivePositions(todos)) = 1
    /\ currentFilter = "completed"
    /\ Len(rows) = 1 /\ rows[1].t.completed
    /\ todoCountText = <<"1", " item", "", " left">>

\* C18: whenever the program accepts an action, toggle-all is checked exactly
\* when the collection is non-empty and every task is completed.
C18_ToggleAllCheckedIffAllCompleted ==
    toggleAllChecked = (Len(todos) > 0 /\ \A k \in 1..Len(todos) : todos[k].completed)

\* C18 witness: toggle-all was activated on the empty collection and is shown
\* unchecked afterwards.
C18_Witness ==
    /\ last.op = "toggleAllChange"
    /\ todos = <<>>
    /\ ~toggleAllChecked

\* C19 as claimed: when Enter commits the edit of a task of the collection and
\* the render that removes the focused edit input raises blur, commit runs a
\* second time with the same draft; the collection and the persisted value are then those of a single
\* commit, in the rename branch and in the delete branch, and no task other
\* than the edited one is removed or renamed.
C19_CommitTwiceSameAsOnce ==
    [][(/\ focusedRow # 0
        /\ blurOnRemoval
        /\ last'.op = "editEnter"
        /\ HasId(todos, rows[focusedRow].t.id))
        => LET T == rows[focusedRow].t
               value == rows[focusedRow].value
               once == commit([State EXCEPT !.focusedRow = 0], T, value)
           IN  /\ todos' = once.todos
               /\ storage' = once.storage
               /\ \E p \in 1..Len(todos) :
                    /\ todos[p].id = T.id
                    /\ \/ IsBlank(value) /\ todos' = Without(todos, p)
                       \/ ~IsBlank(value)
                          /\ todos' = [todos EXCEPT ![p].title = trim(value)]]_vars

\* The part of C19 that does not depend on the ids: a second commit leaves
\* what the first one left.
C19_SecondCommitChangesNothing ==
    [][(/\ focusedRow # 0
        /\ blurOnRemoval
        /\ last'.op = "editEnter")
        => LET once == commit([State EXCEPT !.focusedRow = 0],
                              rows[focusedRow].t, rows[focusedRow].value)
           IN  todos' = once.todos /\ storage' = once.storage]_vars

\* The tasks of the collection carry different ids.
DistinctIds(ts) == \A j, k \in 1..Len(ts) : ts[j].id = ts[k].id => j = k

\* C19 restricted to collections without the duplicate ids of C3.
C19_HoldsWithDistinctIds ==
    [][(/\ focusedRow # 0
        /\ blurOnRemoval
        /\ last'.op = "editEnter"
        /\ HasId(todos, rows[focusedRow].t.id)
        /\ DistinctIds(todos))
        => \E p \in 1..Len(todos) :
            /\ todos[p].id = rows[focusedRow].t.id
            /\ \/ IsBlank(rows[focusedRow].value) /\ todos' = Without(todos, p)
               \/ ~IsBlank(rows[focusedRow].value)
                  /\ todos' = [todos EXCEPT ![p].title = trim(rows[focusedRow].value)]]_vars

\* The ids of a collection, in its order.
IdsOf(ts) == [k \in 1..Len(ts) |-> ts[k].id]

RECURSIVE IsSubseq(_, _)
\* a can be obtained from b by deleting elements.
IsSubseq(a, b) ==
    IF a = <<>> THEN TRUE
    ELSE IF b = <<>> THEN FALSE
    ELSE IF Head(a) = Head(b) THEN IsSubseq(Tail(a), Tail(b))
    ELSE IsSubseq(a, Tail(b))

\* The step ran removeTodo, clearCompleted or a commit with an empty draft
\* (from Enter, from blur, from the blur that the render of Escape raises, or
\* from the blur that starting another edit raises).
RemovingStep ==
    \/ last'.op \in {"destroyClick", "clearCompletedClick"}
    \/ last'.op \in {"editEnter", "editBlur"} /\ IsBlank(last'.arg)
    \/ last'.op = "editEscape" /\ blurOnRemoval /\ IsBlank(last'.arg)
    \/ last'.op = "labelDblclick" /\ focusedRow # 0 /\ IsBlank(last'.arg)

\* C20: no step reorders tasks or changes an id.  A step that adds (addTodo
\* with a non-blank title) puts exactly one task in front of the unchanged
\* collection; after every other step the ids of the collection are the ids
\* before the step with some deleted, in the same order, and some are deleted
\* only by removeTodo, clearCompleted or a commit with an empty draft.
C20_OrderAndIdsPreserved ==
    [][IF last'.op = "newTodoKeydown" /\ ~IsBlank(last'.arg)
       THEN /\ Len(todos') = Len(todos) + 1
            /\ Tail(todos') = todos
            /\ todos'[1].id = last'.id
       ELSE /\ IsSubseq(IdsOf(todos'), IdsOf(todos))
            /\ Len(todos') < Len(todos) => RemovingStep]_vars

\* C20 witness: a commit with an empty draft removed one of two tasks and left
\* the other one.
C20_Witness ==
    /\ last.op = "editEnter"
    /\ IsBlank(last.arg)
    /\ last.before = 2
    /\ Len(todos) = 1

====
